---- MODULE Spec2Model ----
(***************************************************************************)
(* useEnhanceChildren: a React hook that injects props into the children   *)
(* of a compound component.  The hook is                                   *)
(*                                                                         *)
(*   useMemo(() => React.Children.map(children, enhance),                  *)
(*           [children, options])                                          *)
(*                                                                         *)
(* where enhance is the per-child callback.  The model follows the source  *)
(* in src/src/hooks/useEnhanceChildren.test.tsx, lines 438-552, and the    *)
(* documented behaviour of the three React calls it makes                  *)
(* (React.isValidElement, React.cloneElement, React.Children.map).         *)
(***************************************************************************)
EXTENDS Integers, Sequences, FiniteSets, TLC

VARIABLES
    children,     \* the children the calling component was given
    options,      \* the options object it passes to the hook
    childrenRef,  \* the identity of the children value (Object.is)
    optionsRef,   \* the identity of the options object (Object.is)
    memo,         \* the hook's useMemo cell: empty before the first render
    result,       \* what the last call of the hook returned
    pc,           \* where the calling component is
    calls,        \* how many times the component has called the hook
    traversals    \* how many times the useMemo factory has run

vars == <<children, options, childrenRef, optionsRef, memo, result, pc,
          calls, traversals>>

(***************************************************************************)
(* ReactNode values.  Every value is a record with a kind field.           *)
(* An optional field (a property that may be absent) is a set with at most *)
(* one member.                                                             *)
(***************************************************************************)
Null == [kind |-> "null"]

Undefined == [kind |-> "undefined"]

Bool(b) == [kind |-> "boolean", b |-> b]

Str(s) == [kind |-> "string", s |-> s]

Num(n) == [kind |-> "number", n |-> n]

Arr(items) == [kind |-> "array", items |-> items]

\* A props object: the plain attributes, and the children property.
Props(attrs, kids) == [attrs |-> attrs, children |-> kids]

EmptyAttrs == [k \in {} |-> ""]

NoProps == Props(EmptyAttrs, {})

\* A React element: its type, its key (null when absent) and its props.
Element(type, key, props) ==
    [kind |-> "element", type |-> type, key |-> key, props |-> props]

\* A host type is a string ('div'); a component type is a function that may
\* carry a displayName and always has a (possibly empty) function name.
HostType(tag) == [typeof |-> "string", displayName |-> {}, name |-> tag]

ComponentType(displayName, name) ==
    [typeof |-> "function", displayName |-> displayName, name |-> name]

(***************************************************************************)
(* The React calls the hook makes.                                         *)
(***************************************************************************)

\* React.isValidElement(child): child is an object made by createElement.
isValidElement(child) == child.kind = "element"

\* JavaScript truthiness of a node value, as the test `childProps?.children`
\* takes it: null, undefined, false, '' and 0 are falsy, everything else
\* (arrays and elements included) is truthy.
Truthy(node) ==
    CASE node.kind \in {"null", "undefined"} -> FALSE
      [] node.kind = "boolean" -> node.b
      [] node.kind = "string" -> node.s # ""
      [] node.kind = "number" -> node.n # 0
      [] OTHER -> TRUE

\* Object.keys(props): the own enumerable property names.
ObjectKeys(props) ==
    DOMAIN props.attrs \cup (IF props.children = {} THEN {} ELSE {"children"})

\* The object literal { ...first, ...second }: second's properties win.
Spread(first, second) ==
    Props(second.attrs @@ first.attrs,
          IF second.children # {} THEN second.children ELSE first.children)

\* The property names React.cloneElement never copies from config to props.
ReservedProps == {"key", "__self", "__source"}

\* React.cloneElement(element, config): the props are the element's props
\* overridden by config's, reserved names left out; config.key, when given,
\* replaces the element's key ('' + config.key).
cloneElement(element, config) ==
    LET copied == [k \in DOMAIN config.attrs \ ReservedProps |-> config.attrs[k]]
    IN  Element(element.type,
                IF "key" \in DOMAIN config.attrs
                    THEN {config.attrs["key"]} ELSE element.key,
                Props(copied @@ element.props.attrs,
                      IF config.children # {} THEN config.children
                                              ELSE element.props.children))

\* React's getElementKey(element, index): '$' + key for a keyed element,
\* otherwise the index in base 36 (indices here stay below 10).
getElementKey(element, index) ==
    IF element.kind = "element" /\ element.key # {}
        THEN "$" \o (CHOOSE k \in element.key : TRUE)
        ELSE ToString(index)

\* React's cloneAndReplaceKey as Children.map applies it to a mapped
\* element: the new key is childKey, prefixed by the mapped element's own
\* key when the callback changed it.
cloneAndReplaceKey(child, mapped, childKey) ==
    LET own == IF mapped.key # {} /\ mapped.key # child.key
                   THEN (CHOOSE k \in mapped.key : TRUE) \o "/" ELSE ""
    IN  [mapped EXCEPT !.key = {own \o childKey}]

(***************************************************************************)
(* The hook.                                                               *)
(***************************************************************************)

\* A variant that falls back to the function's name.
childNameOrFunctionName(type) ==
    IF type.displayName = {} THEN type.name
    ELSE CHOOSE n \in type.displayName : TRUE

\* const childName = type?.displayName ?? '';
childNameOf(type) ==
    IF type.displayName = {} THEN "" ELSE CHOOSE n \in type.displayName : TRUE

\* A variant whose Broadcast mode skips components without a displayName.
inheritedPropsOfLabelled(opts, childName) ==
    IF opts.mapProps # {}
        THEN LET mapProps == CHOOSE m \in opts.mapProps : TRUE
             IN  IF childName \in DOMAIN mapProps
                     THEN {mapProps[childName]} ELSE {}
        ELSE IF childName = "" THEN {} ELSE opts.props

\* 'mapProps' in options ? options.mapProps[childName] : options.props
\* (the empty set stands for undefined).
inheritedPropsOfPropsFirst(opts, childName) ==
    IF opts.props # {} THEN opts.props
    ELSE IF opts.mapProps # {}
        THEN LET mapProps == CHOOSE m \in opts.mapProps : TRUE
             IN  IF childName \in DOMAIN mapProps THEN {mapProps[childName]}
                 ELSE {}
        ELSE {}

inheritedPropsOf(opts, childName) ==
    IF opts.mapProps # {}
        THEN LET mapProps == CHOOSE m \in opts.mapProps : TRUE
             IN  IF childName \in DOMAIN mapProps
                     THEN {mapProps[childName]} ELSE {}
        ELSE opts.props

\* inheritedProps && Object.keys(inheritedProps).length > 0
hasInheritedProps(inheritedProps) ==
    \E p \in inheritedProps : Cardinality(ObjectKeys(p)) > 0

\* A variant with the spreads in the other order: injected props win.
mergedPropsInjectedWin(inheritedProps, childProps) ==
    Spread(childProps, inheritedProps)

\* A variant that passes only the child's own props on.
mergedPropsOwnOnly(inheritedProps, childProps) == childProps

\* { ...inheritedProps, ...childProps }
mergedProps(inheritedProps, childProps) == Spread(inheritedProps, childProps)

\* A variant that takes no type for a native one.
isHostTypeNever(type) == FALSE

\* typeof child.type === 'string'
isHostType(type) == type.typeof = "string"

\* A variant that never sees children.
hasChildrenNever(childProps) == FALSE

\* childProps?.children
hasChildren(childProps) ==
    childProps.children # {} /\ Truthy(CHOOSE c \in childProps.children : TRUE)

RECURSIVE enhance(_, _), mapIntoArray(_, _, _), mapItems(_, _, _, _),
          mapChildren(_, _)

\* A variant that returns null for what is no element.
enhanceDropsNonElements(child, opts) ==
    IF ~isValidElement(child) THEN Null
    ELSE IF isHostType(child.type) THEN child
    ELSE LET childProps == child.props
             inheritedProps == inheritedPropsOf(opts, childNameOf(child.type))
         IN  IF hasInheritedProps(inheritedProps)
                 THEN cloneElement(child,
                          mergedProps(CHOOSE p \in inheritedProps : TRUE,
                                      childProps))
             ELSE IF hasChildren(childProps)
                 THEN cloneElement(child,
                          [childProps EXCEPT !.children =
                              {mapChildren(CHOOSE c \in childProps.children : TRUE,
                                           opts)}])
             ELSE child

\* A variant that goes on into the children of the element it augments.
enhanceDescends(child, opts) ==
    IF ~isValidElement(child) THEN child
    ELSE IF isHostType(child.type) THEN child
    ELSE LET childProps == child.props
             inheritedProps == inheritedPropsOf(opts, childNameOf(child.type))
             merged == IF hasInheritedProps(inheritedProps)
                           THEN mergedProps(CHOOSE p \in inheritedProps : TRUE,
                                            childProps)
                           ELSE childProps
         IN  IF hasChildren(merged)
                 THEN cloneElement(child,
                          [merged EXCEPT !.children =
                              {mapChildren(CHOOSE c \in merged.children : TRUE,
                                           opts)}])
             ELSE IF hasInheritedProps(inheritedProps)
                 THEN cloneElement(child, merged)
             ELSE child

\* The callback of lines 521-548.
enhance(child, opts) ==
    IF ~isValidElement(child) THEN child
    ELSE IF isHostType(child.type) THEN child
    ELSE LET childName == childNameOf(child.type)
             childProps == child.props
             inheritedProps == inheritedPropsOf(opts, childName)
         IN  IF hasInheritedProps(inheritedProps)
                 THEN cloneElement(child,
                          mergedProps(CHOOSE p \in inheritedProps : TRUE,
                                      childProps))
             ELSE IF hasChildren(childProps)
                 THEN cloneElement(child,
                          [childProps EXCEPT !.children =
                              {mapChildren(CHOOSE c \in childProps.children : TRUE,
                                           opts)}])
             ELSE child

\* React's mapIntoArray with enhance as the callback: the flat list of the
\* mapped leaves of `node`.  undefined and booleans reach the callback as
\* null; a null result is left out; a mapped element gets a new key.
mapIntoArray(node, nameSoFar, opts) ==
    IF node.kind = "array"
        THEN mapItems(node.items, 1,
                      IF nameSoFar = "" THEN "." ELSE nameSoFar \o ":", opts)
    ELSE LET child == IF node.kind \in {"undefined", "boolean"} THEN Null
                                                                ELSE node
             mapped == enhance(child, opts)
             childKey == IF nameSoFar = ""
                             THEN "." \o getElementKey(child, 0)
                             ELSE nameSoFar
         IN  IF mapped.kind \in {"null", "undefined"} THEN <<>>
             ELSE IF isValidElement(mapped)
                 THEN <<cloneAndReplaceKey(child, mapped, childKey)>>
             ELSE <<mapped>>

\* A variant that collects the members last to first.
mapItemsReversed(items, i, nextNamePrefix, opts) ==
    IF i > Len(items) THEN <<>>
    ELSE mapItems(items, i + 1, nextNamePrefix, opts)
         \o mapIntoArray(items[i],
                         nextNamePrefix \o getElementKey(items[i], i - 1), opts)

\* The loop of mapIntoArray over the members of an array, from member i on.
mapItems(items, i, nextNamePrefix, opts) ==
    IF i > Len(items) THEN <<>>
    ELSE mapIntoArray(items[i],
                      nextNamePrefix \o getElementKey(items[i], i - 1), opts)
         \o mapItems(items, i + 1, nextNamePrefix, opts)

\* React.Children.map(children, enhance): null and undefined are returned
\* as they are, anything else becomes a flat array.
mapChildren(node, opts) ==
    IF node.kind \in {"null", "undefined"} THEN node
    ELSE Arr(mapIntoArray(node, "", opts))

\* Object.keys(undefined) raises a TypeError.
objectKeysRaises(value) == value = {}

\* The test of line 532 is
\* `inheritedProps && Object.keys(inheritedProps).length > 0`: Object.keys
\* is only reached with a truthy inheritedProps.
hasInheritedPropsRaises(inheritedProps) ==
    inheritedProps # {} /\ objectKeysRaises(inheritedProps)

\* Whether the mapping of a value raises an error: what is no element is
\* returned before any property of it is read (line 522), a native element
\* likewise (line 523); a component raises where one of its steps does.
RECURSIVE raises(_, _)
raises(node, opts) ==
    CASE node.kind = "array" ->
             \E i \in 1..Len(node.items) : raises(node.items[i], opts)
      [] node.kind = "element" /\ ~isHostType(node.type) ->
             LET inheritedProps ==
                     inheritedPropsOf(opts, childNameOf(node.type))
             IN  \/ hasInheritedPropsRaises(inheritedProps)
                 \/ /\ ~hasInheritedProps(inheritedProps)
                    /\ hasChildren(node.props)
                    /\ raises(CHOOSE c \in node.props.children : TRUE, opts)
      [] OTHER -> FALSE

\* React's useMemo(factory, deps) on the cell of this hook: the factory runs
\* on the first render and whenever a dependency is another object than at
\* the previous render; otherwise the cell is kept.
areHookInputsEqualChildrenOnly(nextDeps, prevDeps) ==
    nextDeps[1] = prevDeps[1]

\* React's areHookInputsEqual: Object.is on every dependency in turn.
areHookInputsEqual(nextDeps, prevDeps) ==
    \A i \in 1..Len(prevDeps) : nextDeps[i] = prevDeps[i]

useMemo(cell, value, deps) ==
    IF \E c \in cell : areHookInputsEqual(deps, c.deps) THEN cell
    ELSE {[deps |-> deps, value |-> value]}

\* useEnhanceChildren(children, options): the cell after the call; its value
\* is what the hook returns.
useEnhanceChildren(cell, node, nodeRef, opts, optsRef) ==
    useMemo(cell, mapChildren(node, opts), <<nodeRef, optsRef>>)

(***************************************************************************)
(* The inputs: the component types of the repository's Card and tests, the *)
(* trees a caller builds from them, and the options of both modes.         *)
(***************************************************************************)

\* <div>: a native HTML element type.
Div == HostType("div")

\* Card.Header: an arrow function given displayName 'Card.Header'.
CardHeader == ComponentType({"Card.Header"}, "")

\* The tests' WithoutDisplayNameComponent: a component with no displayName.
WithoutDisplayName == ComponentType({}, "WithoutDisplayNameComponent")

TitleChild == "title" :> "Child Prop"

\* What createElement is called with: <div title=..>, <Card.Header />,
\* <Card.Header title="Child Prop" />, <WithoutDisplayNameComponent />.
Heads ==
    { <<Div, TitleChild>>, <<CardHeader, EmptyAttrs>>,
      <<CardHeader, TitleChild>>, <<WithoutDisplayName, EmptyAttrs>> }

\* <Card.Header key="1" />, as the tests write the members of an array.
KeyedHeader == Element(CardHeader, {"1"}, NoProps)

\* The values with no children of their own.
Leaves ==
    { Null, Undefined, Bool(FALSE), Str("Just a string"), Num(42), KeyedHeader }
    \cup { Element(h[1], {}, Props(h[2], {})) : h \in Heads }

\* The values a caller puts beside another one in an array.
Siblings == { Null, Str("Just a string"), KeyedHeader }

\* The nesting depth of the trees the model draws its input from.
MaxDepth == 2

\* The trees of at most d construction steps: a step wraps a tree in an
\* element, as its children property, or puts a sibling before or after it.
RECURSIVE Trees(_)
Trees(d) ==
    IF d = 0 THEN Leaves
    ELSE LET T == Trees(d - 1)
         IN  T \cup { Element(h[1], {}, Props(h[2], {t})) : h \in Heads, t \in T }
               \cup { Arr(<<s, t>>) : s \in Siblings, t \in T }
               \cup { Arr(<<t, s>>) : s \in Siblings, t \in T }

ChildrenInputs == Trees(MaxDepth)

TitleParent == "title" :> "Injected"

DescriptionParent == "description" :> "Injected Desc"

\* The attribute sets a caller injects.
InjectedProps ==
    { NoProps,
      Props(TitleParent, {}),
      Props(DescriptionParent, {}),
      Props(TitleParent @@ DescriptionParent, {}),
      Props("key" :> "k", {}),
      Props(EmptyAttrs, {Str("Injected child")}) }

\* { props }: Broadcast mode.
BroadcastOptions == { [mapProps |-> {}, props |-> {p}] : p \in InjectedProps }

\* The maps of Map mode: keyed by the displayName in use, by a name that
\* only resembles it, by the empty string, and by the name of the function
\* of the component without a displayName.
MapInputs ==
    { [l \in {} |-> NoProps],
      "Card.Header" :> Props(TitleParent, {}),
      "Card.Header" :> NoProps,
      "Card.Header" :> Props(DescriptionParent, {}),
      "Card.Header" :> Props("key" :> "k", {}),
      "Card.Header" :> Props(EmptyAttrs, {Str("Injected child")}),
      "Header" :> Props(TitleParent, {}),
      "" :> Props(TitleParent, {}),
      "WithoutDisplayNameComponent" :> Props(TitleParent, {}),
      ("Card.Header" :> Props(DescriptionParent, {}))
          @@ ("" :> Props(TitleParent, {})) }

\* { mapProps }: Map mode.
MapOptions == { [mapProps |-> {m}, props |-> {}] : m \in MapInputs }

\* { props: undefined }: the attribute set is absent.
AbsentProps == [mapProps |-> {}, props |-> {}]

\* { mapProps, props }: both keys in one options object.
BothOptions ==
    { [mapProps |-> {"Card.Header" :> Props(DescriptionParent, {})},
       props |-> {Props(TitleParent, {})}],
      [mapProps |-> {[l \in {} |-> NoProps]},
       props |-> {Props(TitleParent, {})}] }

OptionsInputs ==
    MapOptions \cup BroadcastOptions \cup {AbsentProps} \cup BothOptions

(***************************************************************************)
(* The state machine: a component is given its children and its options,   *)
(* and its render calls the hook.                                          *)
(***************************************************************************)
Init ==
    /\ children \in ChildrenInputs
    /\ options \in OptionsInputs
    /\ childrenRef = 1
    /\ optionsRef = 1
    /\ memo = {}
    /\ result = Undefined
    /\ pc = "mount"
    /\ calls = 0
    /\ traversals = 0

\* const enhanced = useEnhanceChildren(children, options), with the children
\* and the options of this render.  The factory has run when the cell is
\* another one than before.  An error raised by the hook ends the render.
CallHook ==
    /\ calls' = calls + 1
    /\ IF raises(children', options')
           THEN /\ pc' = "threw"
                /\ traversals' = traversals + 1
                /\ UNCHANGED <<memo, result>>
           ELSE /\ memo' = useEnhanceChildren(memo, children', childrenRef',
                                              options', optionsRef')
                /\ result' = (CHOOSE c \in memo' : TRUE).value
                /\ traversals' = IF memo' = memo THEN traversals
                                 ELSE traversals + 1
                /\ pc' = "rendered"

\* The calling component's first render.
Render ==
    /\ pc = "mount"
    /\ UNCHANGED <<children, options, childrenRef, optionsRef>>
    /\ CallHook

Next == Render

Spec == Init /\ [][Next]_vars

(***************************************************************************)
(* Re-renders.  The calling component renders again and calls the hook     *)
(* with the same children and options objects, or with another object for  *)
(* either: Card builds a new options object at every render, and gets new  *)
(* children whenever App renders.  An object is never changed in place, so *)
(* one identity stands for one value.                                      *)
(***************************************************************************)

\* The number of calls of the hook the model follows.
MaxCalls == 3

MemoChildren ==
    { KeyedHeader,
      Element(CardHeader, {}, Props(TitleChild, {})),
      Element(WithoutDisplayName, {}, Props(EmptyAttrs, {KeyedHeader})),
      Arr(<<Str("Just a string"), KeyedHeader>>) }

MemoOptions ==
    { [mapProps |-> {}, props |-> {Props(TitleParent, {})}],
      [mapProps |-> {"Card.Header" :> Props(TitleParent, {})}, props |-> {}],
      [mapProps |-> {[l \in {} |-> NoProps]}, props |-> {}] }

InitMemo ==
    /\ children \in MemoChildren
    /\ options \in MemoOptions
    /\ childrenRef = 1
    /\ optionsRef = 1
    /\ memo = {}
    /\ result = Undefined
    /\ pc = "mount"
    /\ calls = 0
    /\ traversals = 0

\* A render with the objects of the previous one.
RerenderSame ==
    /\ pc = "rendered"
    /\ calls < MaxCalls
    /\ UNCHANGED <<children, options, childrenRef, optionsRef>>
    /\ CallHook

\* A render with another children object, of any content.
RerenderNewChildren ==
    /\ pc = "rendered"
    /\ calls < MaxCalls
    /\ children' \in MemoChildren
    /\ childrenRef' = childrenRef + 1
    /\ UNCHANGED <<options, optionsRef>>
    /\ CallHook

\* A render with another options object, of any content.
RerenderNewOptions ==
    /\ pc = "rendered"
    /\ calls < MaxCalls
    /\ options' \in MemoOptions
    /\ optionsRef' = optionsRef + 1
    /\ UNCHANGED <<children, childrenRef>>
    /\ CallHook

\* A render with another object for both.
RerenderNewBoth ==
    /\ pc = "rendered"
    /\ calls < MaxCalls
    /\ children' \in MemoChildren
    /\ childrenRef' = childrenRef + 1
    /\ options' \in MemoOptions
    /\ optionsRef' = optionsRef + 1
    /\ CallHook

NextMemo ==
    \/ Render
    \/ RerenderSame
    \/ RerenderNewChildren
    \/ RerenderNewOptions
    \/ RerenderNewBoth

SpecMemo == InitMemo /\ [][NextMemo]_vars

(***************************************************************************)
(* The vocabulary of the properties.  The elements of a tree are listed in *)
(* document order, each with the elements it is nested in (outermost       *)
(* first); lists are looked through.  The hook neither adds nor removes an *)
(* element, so the i-th element of the output is the image of the i-th     *)
(* element of the input.                                                   *)
(***************************************************************************)
RECURSIVE ElementsOf(_, _), ElementsOfItems(_, _, _)
ElementsOf(node, anc) ==
    IF node.kind = "array" THEN ElementsOfItems(node.items, 1, anc)
    ELSE IF node.kind = "element"
        THEN <<[el |-> node, anc |-> anc]>>
             \o (IF node.props.children = {} THEN <<>>
                 ELSE ElementsOf(CHOOSE c \in node.props.children : TRUE,
                                 Append(anc, node)))
    ELSE <<>>

ElementsOfItems(items, i, anc) ==
    IF i > Len(items) THEN <<>>
    ELSE ElementsOf(items[i], anc) \o ElementsOfItems(items, i + 1, anc)

InputElements == ElementsOf(children, <<>>)

OutputElements == ElementsOf(result, <<>>)

Rendered == pc = "rendered"

MapMode == options.mapProps # {}

BroadcastMode == options.mapProps = {} /\ options.props # {}

TheMap == CHOOSE m \in options.mapProps : TRUE

TheProps == CHOOSE p \in options.props : TRUE

IsComponent(el) == el.type.typeof # "string"

\* The name label of a component-typed element: its displayName, if any.
HasLabel(el) == el.type.displayName # {}

LabelOf(el) == CHOOSE n \in el.type.displayName : TRUE

\* The string the map is consulted with: the label, or '' without one.
LookupLabel(el) == IF HasLabel(el) THEN LabelOf(el) ELSE ""

\* The attribute set the configuration holds for an element.
CandidateOf(el) ==
    IF MapMode
        THEN IF LookupLabel(el) \in DOMAIN TheMap
                 THEN TheMap[LookupLabel(el)] ELSE NoProps
        ELSE IF options.props # {} THEN TheProps ELSE NoProps

NonEmpty(props) == ObjectKeys(props) # {}

\* An element is matched when it is component-typed and the configuration
\* holds a non-empty attribute set for it.
Matched(el) == IsComponent(el) /\ NonEmpty(CandidateOf(el))

\* The traversal reaches an element when every element around it is an
\* unmatched component.
Reached(e) ==
    \A j \in 1..Len(e.anc) : IsComponent(e.anc[j]) /\ ~Matched(e.anc[j])

\* The traversal augments the elements it reaches that are matched.
Augmented(e) == Reached(e) /\ Matched(e.el)

\* Own attributes laid over injected ones.
Overlay(own, injected) ==
    [k \in DOMAIN own \cup DOMAIN injected |->
        IF k \in DOMAIN own THEN own[k] ELSE injected[k]]

WithoutReserved(attrs) == [k \in DOMAIN attrs \ ReservedProps |-> attrs[k]]

\* The output lists the same elements as the input, type by type.
SameElements ==
    Rendered =>
        /\ Len(OutputElements) = Len(InputElements)
        /\ \A i \in 1..Len(InputElements) :
               OutputElements[i].el.type = InputElements[i].el.type

(***************************************************************************)
(* C1.  Precedence.                                                        *)
(***************************************************************************)

\* C1: in both modes, when a component-typed element is augmented and a key
\* is both among its own props and among the injected ones, the output
\* element has the key with the element's own value.
C1_OwnValueWins ==
    Rendered =>
        \A i \in 1..Len(InputElements) :
            LET e == InputElements[i]
                own == e.el.props
                injected == CandidateOf(e.el)
                out == OutputElements[i].el.props
            IN  Augmented(e) =>
                    /\ \A k \in DOMAIN own.attrs \cap DOMAIN injected.attrs :
                           k \in DOMAIN out.attrs /\ out.attrs[k] = own.attrs[k]
                    /\ (own.children # {} /\ injected.children # {})
                           => out.children = own.children

\* An augmented element whose own title differs from the injected title.
C1_Witness ==
    /\ Rendered
    /\ \E i \in 1..Len(InputElements) :
           LET e == InputElements[i]
           IN  /\ Augmented(e)
               /\ "title" \in DOMAIN e.el.props.attrs
               /\ "title" \in DOMAIN CandidateOf(e.el).attrs
               /\ e.el.props.attrs["title"] # CandidateOf(e.el).attrs["title"]
               /\ OutputElements[i].el.props.attrs["title"] = "Child Prop"

(***************************************************************************)
(* C2.  Broadcast mode.                                                    *)
(***************************************************************************)

C4_HostElementUntouched ==
    Rendered =>
        \A i \in 1..Len(InputElements) :
            ~IsComponent(InputElements[i].el) =>
                /\ OutputElements[i].el.type = InputElements[i].el.type
                /\ OutputElements[i].el.props = InputElements[i].el.props

\* A native element the traversal reaches, under a non-empty configuration
\* that matches a component among its children.
C4_Witness ==
    /\ Rendered
    /\ \E i, j \in 1..Len(InputElements) :
           /\ ~IsComponent(InputElements[i].el)
           /\ Reached(InputElements[i])
           /\ NonEmpty(CandidateOf(InputElements[i].el))
           /\ InputElements[j].anc = Append(InputElements[i].anc,
                                            InputElements[i].el)
           /\ Matched(InputElements[j].el)
           /\ OutputElements[j].el = InputElements[j].el

(***************************************************************************)
(* C5.  Merge.                                                             *)
(***************************************************************************)

\* C5 as stated: when a component-typed element is augmented, the output
\* has every own key with the own value and every other injected key with
\* the injected value: its keys are the union of both sets.
C5_Original ==
    Rendered =>
        \A i \in 1..Len(InputElements) :
            LET e == InputElements[i]
            IN  Augmented(e) =>
                    OutputElements[i].el.props.attrs =
                        Overlay(e.el.props.attrs, CandidateOf(e.el).attrs)

\* C5: when a component-typed element is augmented, the output has every
\* own key with the own value and every other injected key, the reserved
\* key names apart, with the injected value: its keys are the union of the
\* own and the non-reserved injected keys.
C5_MergeIsUnion ==
    Rendered =>
        \A i \in 1..Len(InputElements) :
            LET e == InputElements[i]
                own == e.el.props
                injected == CandidateOf(e.el)
                out == OutputElements[i].el.props
            IN  Augmented(e) =>
                    /\ out.attrs = Overlay(own.attrs,
                                           WithoutReserved(injected.attrs))
                    /\ out.children = IF own.children # {} THEN own.children
                                                           ELSE injected.children

\* An augmented element with a key of its own that is not injected and an
\* injected key that is not its own.
C5_Witness ==
    /\ Rendered
    /\ \E i \in 1..Len(InputElements) :
           LET e == InputElements[i]
               out == OutputElements[i].el.props
           IN  /\ Augmented(e)
               /\ DOMAIN e.el.props.attrs = {"title"}
               /\ DOMAIN CandidateOf(e.el).attrs = {"description"}
               /\ out.attrs = ("title" :> "Child Prop")
                                  @@ ("description" :> "Injected Desc")

(***************************************************************************)
(* C6.  Shape and order.                                                   *)
(***************************************************************************)

\* Whether the configuration injects a children property somewhere.
InjectsChildren ==
    \/ \E p \in options.props : p.children # {}
    \/ \E m \in options.mapProps : \E l \in DOMAIN m : m[l].children # {}

\* The shape of a tree with its lists and empty members kept: a lone value
\* counts as a list of one.
RECURSIVE ShapeOf(_), ShapeOfList(_), ShapeOfItems(_, _)
ShapeOf(node) ==
    CASE node.kind = "array" ->
             [kind |-> "array", members |-> ShapeOfItems(node.items, 1)]
      [] node.kind = "element" ->
             [kind |-> "element", type |-> node.type,
              members |-> IF node.props.children = {} THEN <<>>
                          ELSE ShapeOfList(CHOOSE c \in node.props.children : TRUE)]
      [] node.kind \in {"null", "undefined"} -> [kind |-> "null"]
      [] OTHER -> [kind |-> node.kind]

ShapeOfList(node) ==
    IF node.kind = "array" THEN ShapeOfItems(node.items, 1)
    ELSE <<ShapeOf(node)>>

ShapeOfItems(items, i) ==
    IF i > Len(items) THEN <<>>
    ELSE <<ShapeOf(items[i])>> \o ShapeOfItems(items, i + 1)

\* The shape of a tree as it renders: lists are looked through and null,
\* undefined and boolean members left out.
RECURSIVE RenderedShape(_), RenderedShapeOfItems(_, _)
RenderedShape(node) ==
    CASE node.kind = "array" -> RenderedShapeOfItems(node.items, 1)
      [] node.kind = "element" ->
             <<[kind |-> "element", type |-> node.type,
                members |-> IF node.props.children = {} THEN <<>>
                            ELSE RenderedShape(CHOOSE c \in node.props.children : TRUE)]>>
      [] node.kind \in {"string", "number"} -> <<node>>
      [] OTHER -> <<>>

RenderedShapeOfItems(items, i) ==
    IF i > Len(items) THEN <<>>
    ELSE RenderedShape(items[i]) \o RenderedShapeOfItems(items, i + 1)

\* Whether a boolean occurs in the tree.
RECURSIVE HasBoolean(_)
HasBoolean(node) ==
    CASE node.kind = "boolean" -> TRUE
      [] node.kind = "array" ->
             \E i \in 1..Len(node.items) : HasBoolean(node.items[i])
      [] node.kind = "element" ->
             \E c \in node.props.children : HasBoolean(c)
      [] OTHER -> FALSE

C7_RecursionIntoUnmatched ==
    Rendered =>
        \A i \in 1..Len(InputElements) :
            LET e == InputElements[i]
                out == OutputElements[i].el.props
            IN  (/\ Reached(e) /\ IsComponent(e.el) /\ ~Matched(e.el)
                 /\ e.el.props.children # {}
                 /\ Truthy(CHOOSE c \in e.el.props.children : TRUE)) =>
                    /\ out.attrs = e.el.props.attrs
                    /\ out.children =
                           {mapChildren(CHOOSE c \in e.el.props.children : TRUE,
                                        options)}
                    /\ \A j \in 1..Len(InputElements) :
                           LET d == InputElements[j]
                           IN  (d.anc = Append(e.anc, e.el) /\ Matched(d.el)) =>
                                   OutputElements[j].el.props.attrs =
                                       Overlay(d.el.props.attrs,
                                           WithoutReserved(CandidateOf(d.el).attrs))

\* A matched component two unmatched components deep, augmented.
C7_Witness ==
    /\ Rendered
    /\ \E j \in 1..Len(InputElements) :
           /\ Len(InputElements[j].anc) = 2
           /\ Reached(InputElements[j])
           /\ Matched(InputElements[j].el)
           /\ OutputElements[j].el.props.attrs # InputElements[j].el.props.attrs

(***************************************************************************)
(* C8.  No descent into augmented elements.                                *)
(***************************************************************************)

\* The element lies below an element the traversal augments.
UnderAugmented(e) ==
    \E a \in 1..Len(e.anc) :
        /\ Matched(e.anc[a])
        /\ \A b \in 1..(a - 1) : IsComponent(e.anc[b]) /\ ~Matched(e.anc[b])

\* C8: when a component-typed element is augmented, its children are the
\* input's children, and every element below it is in the output exactly as
\* it is in the input, also when its label is a key of the map or the mode
\* is Broadcast.
C8_NoDescentIntoAugmented ==
    Rendered =>
        \A i \in 1..Len(InputElements) :
            LET e == InputElements[i]
            IN  /\ (Augmented(e) /\ e.el.props.children # {}) =>
                       OutputElements[i].el.props.children = e.el.props.children
                /\ UnderAugmented(e) => OutputElements[i].el = e.el

\* A matched component below an augmented one, lacking the injected key and
\* left as it was.
C8_Witness ==
    /\ Rendered
    /\ \E i \in 1..Len(InputElements) :
           LET e == InputElements[i]
           IN  /\ UnderAugmented(e)
               /\ Matched(e.el)
               /\ ~(DOMAIN CandidateOf(e.el).attrs \subseteq DOMAIN e.el.props.attrs)
               /\ OutputElements[i].el = e.el

(***************************************************************************)
(* C9.  Values that are no elements.                                       *)
(***************************************************************************)

\* The members of the children value that are no lists, lists looked
\* through.
RECURSIVE MembersOf(_), MembersOfItems(_, _)
MembersOf(node) ==
    IF node.kind = "array" THEN MembersOfItems(node.items, 1) ELSE <<node>>

MembersOfItems(items, i) ==
    IF i > Len(items) THEN <<>>
    ELSE MembersOf(items[i]) \o MembersOfItems(items, i + 1)

\* The texts and numbers among them, in order.
TextsOf(node) ==
    SelectSeq(MembersOf(node), LAMBDA m : m.kind \in {"string", "number"})

C10_UnlabelledNeverAugmented ==
    (Rendered /\ MapMode) =>
        \A i \in 1..Len(InputElements) :
            (IsComponent(InputElements[i].el) /\ ~HasLabel(InputElements[i].el))
                => OutputElements[i].el.props.attrs
                       = InputElements[i].el.props.attrs


(***************************************************************************)
(* C11.  Totality.                                                         *)
(***************************************************************************)

\* The cases named as yielding no augmentation: an empty map, a component
\* without a label, a label with no map entry, an absent or empty
\* attribute set.
NoAugmentationCase(el) ==
    \/ /\ MapMode
       /\ \/ DOMAIN TheMap = {}
          \/ ~HasLabel(el)
          \/ LabelOf(el) \notin DOMAIN TheMap
          \/ ~NonEmpty(TheMap[LabelOf(el)])
    \/ /\ ~MapMode
       /\ \/ options.props = {}
          \/ ~NonEmpty(TheProps)

\* The render never ends with an error.
NeverRaises == pc # "threw"

\* C11: for every children value and every configuration of either shape
\* the operation completes and returns a tree without raising an error, and
\* every component keeps its own attributes where the map is empty, its
\* attribute set is absent or empty, it has no label, or its label has no
\* map entry.
C11_TotalAndInert ==
    /\ NeverRaises
    /\ Rendered =>
          \A i \in 1..Len(InputElements) :
              LET el == InputElements[i].el
              IN  (IsComponent(el) /\ NoAugmentationCase(el)) =>
                      OutputElements[i].el.props.attrs = el.props.attrs


(***************************************************************************)
(* C12.  Memoization over a sequence of calls.                             *)
(***************************************************************************)

\* What C12 says of one call of the hook that returns.
C12_Call ==
    (calls' = calls + 1 /\ pc' = "rendered") =>
        /\ (calls > 0 /\ childrenRef' = childrenRef
                /\ optionsRef' = optionsRef) =>
               (traversals' = traversals /\ result' = result)
        /\ (calls > 0 /\ (childrenRef' # childrenRef
                             \/ optionsRef' # optionsRef)) =>
               traversals' = traversals + 1
        /\ result' = mapChildren(children', options')

\* C12: over the calls of one calling component, a call with the children
\* and options objects of the previous call returns the previous tree
\* without running the traversal, a call with another object for either
\* runs the traversal, and the returned tree is always the traversal of
\* the current children with the current options.
C12_Memoization == [][C12_Call]_vars

\* A call ran the traversal again and another one returned the cached tree.
C12_Witness ==
    /\ Rendered
    /\ traversals >= 2
    /\ traversals < calls
    /\ result = mapChildren(children, options)


(***************************************************************************)
(* C13.  The function name as the lookup key in Map mode.                  *)
(***************************************************************************)

\* C13: in Map mode a component-typed element outside every other element,
\* whose type has no displayName and whose function name is a key of the
\* map with a non-empty attribute set, is augmented with that set.
C13_FunctionNameFallback ==
    (Rendered /\ MapMode) =>
        \A i \in 1..Len(InputElements) :
            LET e == InputElements[i]
            IN  (/\ e.anc = <<>>
                 /\ IsComponent(e.el) /\ ~HasLabel(e.el)
                 /\ e.el.type.name \in DOMAIN TheMap
                 /\ NonEmpty(TheMap[e.el.type.name])) =>
                    OutputElements[i].el.props.attrs =
                        Overlay(e.el.props.attrs,
                            WithoutReserved(TheMap[e.el.type.name].attrs))

(***************************************************************************)
(* C14.  Options with both mapProps and props.                             *)
(***************************************************************************)

\* The values the props key of an options object may hold, absence included.
PropsValues == {{}} \cup { {p} : p \in InjectedProps }

\* C14: when the options hold both mapProps and props, the output is the
\* output of Map mode with that map, whatever the value of props.
C14_PropsIgnoredInMapMode ==
    (Rendered /\ options.mapProps # {} /\ options.props # {}) =>
        \A p \in PropsValues :
            result = mapChildren(children,
                                 [mapProps |-> options.mapProps, props |-> p])

\* Both keys are present, a component is reached, and Broadcast mode with
\* the same props would have given another tree.
C14_Witness ==
    /\ Rendered
    /\ options.mapProps # {}
    /\ options.props # {}
    /\ \E i \in 1..Len(InputElements) :
           IsComponent(InputElements[i].el) /\ Reached(InputElements[i])
    /\ result # mapChildren(children,
                            [mapProps |-> {}, props |-> options.props])
    /\ result # children

====
